---- MODULE Spec2Model ----
(***************************************************************************)
(* A model of clean_build_cache.py: the catalogue of cache locations, the  *)
(* size probe get_size, the recursive eraser delete_path_verbose, the      *)
(* progress bar and the walker clean_all_verbose.                          *)
(*                                                                         *)
(* The filesystem is a set of existing nodes of a fixed universe of paths  *)
(* below the current working directory.  Every stat, unlink and rmdir the  *)
(* program issues may fail on its own (permission denied, in use), chosen  *)
(* per attempt; an rmdir of a directory that still has entries always      *)
(* fails.  Directory listings are returned in the fixed order Order.       *)
(***************************************************************************)
EXTENDS Integers, Sequences, FiniteSets, TLC

\* Largest size of a file of the modelled filesystem.
MaxSize == 1

\* Largest number of operations that fail on their own (not because a
\* directory still has entries) during one run of clean_all_verbose.
MaxFaults == 2

\* Largest number of categories handed to progress_bar in SpecBar.
MaxTotal == 50

(***************************************************************************)
(* The filesystem universe                                                 *)
(***************************************************************************)
FileNodes == {"cwd/keep", "cwd/build/a", "cwd/build/sub/b"}

DirNodes == {"cwd", "cwd/build", "cwd/build/sub", "cwd/build/e"}

Nodes == FileNodes \cup DirNodes

\* The order in which a directory listing returns its entries.
Order == <<"cwd", "cwd/build", "cwd/build/a", "cwd/build/e", "cwd/build/sub",
           "cwd/build/sub/b", "cwd/keep">>

Parent == [n \in Nodes |->
             CASE n = "cwd" -> ""
               [] n \in {"cwd/keep", "cwd/build"} -> "cwd"
               [] n \in {"cwd/build/a", "cwd/build/sub", "cwd/build/e"} -> "cwd/build"
               [] OTHER -> "cwd/build/sub"]

RECURSIVE IsUnder(_, _)
\* n is top or lies below it.
IsUnder(n, top) ==
    \/ n = top
    \/ /\ n \in Nodes
       /\ Parent[n] # ""
       /\ IsUnder(Parent[n], top)

Tree(fsx, top) == {n \in fsx : IsUnder(n, top)}

Entries(fsx, d) == {n \in fsx : Parent[n] = d}

FilesIn(fsx, d) ==
    LET keepIt(n) == n \in fsx /\ n \in FileNodes /\ Parent[n] = d
    IN  SelectSeq(Order, keepIt)

DirsIn(fsx, d) ==
    LET keepIt(n) == n \in fsx /\ n \in DirNodes /\ Parent[n] = d
    IN  SelectSeq(Order, keepIt)

RECURSIVE SumSize(_, _)
SumSize(S, sz) ==
    IF S = {} THEN 0
    ELSE LET n == CHOOSE x \in S : TRUE
         IN  sz[n] + SumSize(S \ {n}, sz)

\* The bytes held by the files of fsx at or below top.
TreeSize(fsx, sz, top) == SumSize(Tree(fsx, top) \cap FileNodes, sz)

\* The filesystems the model starts from: the working directory exists,
\* every existing node has an existing parent, and only existing files have
\* a size.
FsStates == {S \in SUBSET Nodes :
               /\ "cwd" \in S
               /\ \A n \in S : Parent[n] = "" \/ Parent[n] \in S}

SizeMaps(S) == {sz \in [FileNodes -> 0..MaxSize] :
                  \A f \in FileNodes \ S : sz[f] = 0}

(***************************************************************************)
(* pathlib.Path                                                            *)
(***************************************************************************)
\* Path(s): the empty string becomes the relative path ".".
PathOf(s) == IF s = "" THEN "." ELSE s

\* bool(p) of a Path object: Path defines neither __bool__ nor __len__.
PathTruthy(p) == TRUE

\* The node a path names: "." is the current working directory.
Resolve(p) == IF p = "." THEN "cwd" ELSE p

PathExists(fsx, p) == Resolve(p) \in fsx

PathIsFile(fsx, p) == Resolve(p) \in fsx \cap FileNodes

PathIsDir(fsx, p) == Resolve(p) \in fsx \cap DirNodes

(***************************************************************************)
(* CACHE_LOCATIONS                                                         *)
(***************************************************************************)
Unset == "<unset>"

\* os.getenv(name) or "".
GetenvOrEmpty(v) == IF v = Unset \/ v = "" THEN "" ELSE v

CACHE_LOCATIONS(temp, tmp) == <<
    [label |-> "Android / Gradle",
     paths |-> <<"home/.gradle/caches", "home/.gradle/daemon", "cwd/build",
                 "cwd/app/build", "cwd/.gradle", "cwd/.idea/caches",
                 "cwd/.idea/libraries", "home/.android/build-cache",
                 "~/AppData/Local/Gradle/caches",
                 "~/AppData/Local/Gradle/daemon">>],
    [label |-> "Node.js",
     paths |-> <<"home/.npm", "~/AppData/Roaming/npm-cache", "home/.cache/yarn",
                 "~/AppData/Local/Yarn/Cache", "home/.pnpm-store",
                 "~/AppData/Local/pnpm-store", "cwd/node_modules", "cwd/dist",
                 "cwd/build", "cwd/.next", "cwd/.nuxt", "cwd/.svelte-kit",
                 "cwd/.angular">>],
    [label |-> "Maven / Kotlin",
     paths |-> <<"home/.m2/repository", "~/.m2/repository", "cwd/target",
                 "cwd/build", "cwd/.gradle">>],
    [label |-> "Python",
     paths |-> <<"home/.cache/pip", "~/AppData/Local/pip/cache", "cwd/venv",
                 "cwd/.venv", "cwd/build", "cwd/dist">>],
    [label |-> "Rust (Cargo)",
     paths |-> <<"home/.cargo/registry", "home/.cargo/git", "~/.cargo/registry",
                 "~/.cargo/git", "cwd/target">>],
    [label |-> "Go",
     paths |-> <<"home/go/pkg/mod", "~/go/pkg/mod", "cwd/bin">>],
    [label |-> "System Temp",
     paths |-> <<"/tmp", "/var/tmp", PathOf(GetenvOrEmpty(temp)),
                 PathOf(GetenvOrEmpty(tmp))>>] >>

\* The locations the catalogue names in its source text.
NamedLocations ==
    UNION {{c.paths[k] : k \in DOMAIN c.paths} :
             c \in {CACHE_LOCATIONS("/tmp", "/tmp")[k] :
                       k \in DOMAIN CACHE_LOCATIONS("/tmp", "/tmp")}}

\* A catalogue of one category: a build directory and a path that never
\* exists.
TestCatalogue ==
    << [label |-> "Test", paths |-> <<"cwd/build", "cwd/missing">>] >>

EnvValues == {Unset, "/tmp"}

Catalogues ==
    {CACHE_LOCATIONS(temp, tmp) : temp \in EnvValues, tmp \in EnvValues}
        \cup {TestCatalogue}

(***************************************************************************)
(* State                                                                   *)
(***************************************************************************)
VARIABLES
    fs,             \* the nodes that exist
    fs_start,       \* fs when the program started
    size,           \* st_size of every file
    catalogue,      \* CACHE_LOCATIONS as built at import time
    pc,             \* where the program is
    i,              \* clean_all_verbose: index of the category (from 1)
    j,              \* clean_all_verbose: index of the path in the category
    total_cleaned,  \* clean_all_verbose: running total
    size_before,    \* clean_all_verbose: get_size(p) of the current path
    log,            \* clean_all_verbose: the lines it printed itself
    path,           \* delete_path_verbose: its argument
    total_freed,    \* delete_path_verbose: its accumulator and return value
    plan,           \* delete_path_verbose: the attempts still to make
    notices,        \* delete_path_verbose: the lines it printed
    ops,            \* the filesystem operations of the current call
    faults,         \* the operations of the current call that failed on their own
    fs_before,      \* fs when the current call began
    budget,         \* how many more operations may fail on their own
    current,        \* progress_bar: argument
    total,          \* progress_bar: argument
    bar             \* progress_bar: the rendered result

walkerVars == <<catalogue, i, j, total_cleaned, size_before, log>>

eraseVars == <<path, total_freed, plan, notices, ops, faults, fs_before>>

barVars == <<current, total, bar>>

vars == <<fs, fs_start, size, pc, budget, walkerVars, eraseVars, barVars>>

(***************************************************************************)
(* get_size                                                                *)
(***************************************************************************)
StatOutcomes == {"ok", "ENOENT", "EACCES"}

\* The outcome of the stat of each file during one call; absent files are
\* never listed, so their entry is fixed.
StatOracles(fsx) == {o \in [FileNodes -> StatOutcomes] :
                       \A f \in FileNodes \ fsx : o[f] = "ok"}

\* get_size(path) with the stat of file f ending as o[f]: either a size, or
\* an exception that leaves the function.
get_size(fsx, sz, p, o) ==
    IF ~PathExists(fsx, p) THEN [raised |-> FALSE, val |-> 0]
    ELSE IF PathIsFile(fsx, p)
         THEN IF o[Resolve(p)] = "ok"
              THEN [raised |-> FALSE, val |-> sz[Resolve(p)]]
              ELSE [raised |-> TRUE, val |-> 0]
         ELSE LET listed == Tree(fsx, Resolve(p)) \cap FileNodes
              IN  IF \E f \in listed : o[f] = "EACCES"
                  THEN [raised |-> TRUE, val |-> 0]
                  ELSE [raised |-> FALSE,
                        val |-> SumSize({f \in listed : o[f] = "ok"}, sz)]

(***************************************************************************)
(* delete_path_verbose                                                     *)
(***************************************************************************)
RECURSIVE WalkTopDown(_, _)
\* A walk that yields every directory before its subdirectories.
WalkTopDown(fsx, top) ==
    LET ds == DirsIn(fsx, top)
        below[k \in 0..Len(ds)] ==
            IF k = 0 THEN <<>> ELSE below[k - 1] \o WalkTopDown(fsx, ds[k])
    IN  <<[root |-> top, dirs |-> ds, files |-> FilesIn(fsx, top)]>>
          \o below[Len(ds)]

RECURSIVE WalkBottomUp(_, _)
\* os.walk(top, topdown=False): the (root, dirs, files) triples, every
\* subdirectory's triples before its parent's.
WalkBottomUp(fsx, top) ==
    LET ds == DirsIn(fsx, top)
        below[k \in 0..Len(ds)] ==
            IF k = 0 THEN <<>> ELSE below[k - 1] \o WalkBottomUp(fsx, ds[k])
    IN  below[Len(ds)]
          \o <<[root |-> top, dirs |-> ds, files |-> FilesIn(fsx, top)]>>

\* The attempts of one triple: every file, then every subdirectory.
TripleOps(t) ==
    [k \in 1..Len(t.files) |-> [k |-> "file", n |-> t.files[k]]]
      \o [k \in 1..Len(t.dirs) |-> [k |-> "dir", n |-> t.dirs[k]]]

\* The attempts of a loop over the listing of top alone.
WalkOps_RootOnly(fsx, top) ==
    TripleOps([root |-> top, dirs |-> DirsIn(fsx, top),
               files |-> FilesIn(fsx, top)])

\* The attempts the loop over os.walk makes, in order.
WalkOps(fsx, top) ==
    LET w == WalkBottomUp(fsx, top)
        upto[k \in 0..Len(w)] ==
            IF k = 0 THEN <<>> ELSE upto[k - 1] \o TripleOps(w[k])
    IN  upto[Len(w)]

RECURSIVE RmtreeOps(_, _)
\* shutil.rmtree below d: every entry in listing order, a directory's
\* contents before the directory.
RmtreeOps(fsx, d) ==
    LET es == LET keepIt(n) == n \in fsx /\ Parent[n] = d
              IN  SelectSeq(Order, keepIt)
        upto[k \in 0..Len(es)] ==
            IF k = 0 THEN <<>>
            ELSE upto[k - 1] \o
                   (IF es[k] \in DirNodes
                    THEN RmtreeOps(fsx, es[k]) \o <<[k |-> "dir", n |-> es[k]]>>
                    ELSE <<[k |-> "file", n |-> es[k]]>>)
    IN  upto[Len(es)]

\* An rmtree that empties the root and leaves it.
RmtreePlan_ContentsOnly(fsx, root) == RmtreeOps(fsx, root)

\* shutil.rmtree(path, ignore_errors=True): the contents, then the root.
RmtreePlan(fsx, root) ==
    Append(RmtreeOps(fsx, root), [k |-> "dir", n |-> root])

\* An accumulator that adds the size as soon as stat has returned it.
FreedAfter_CountsBeforeUnlink(freed, sz, oc) ==
    IF oc \in {"ok", "unlink_fail"} THEN freed + sz ELSE freed

\* total_freed after one file: its size is added after unlink succeeded.
FreedAfter(freed, sz, oc) == IF oc = "ok" THEN freed + sz ELSE freed

Op(o, n, ok, by) == [op |-> o, n |-> n, ok |-> ok, by |-> by]

Notice(t, n) == [t |-> t, n |-> n]

\* The call delete_path_verbose(p) up to its first attempt.
BeginErase(p) ==
    /\ path' = p
    /\ fs_before' = fs
    /\ total_freed' = 0
    /\ ops' = <<>>
    /\ notices' = <<>>
    /\ faults' = {}
    /\ IF ~PathExists(fs, p)
       THEN plan' = <<>> /\ pc' = "ret"
       ELSE IF PathIsFile(fs, p)
            THEN plan' = <<[k |-> "file", n |-> Resolve(p)]>> /\ pc' = "walk"
            ELSE plan' = WalkOps(fs, Resolve(p)) /\ pc' = "walk"

\* One file of the walk (or the file the call was given): stat, print,
\* unlink, add its size; a failure of stat or unlink prints [SKIPPED].
WalkFile ==
    /\ pc = "walk"
    /\ plan # <<>>
    /\ Head(plan).k = "file"
    /\ LET n == Head(plan).n
       IN  \E oc \in {"ok", "stat_fail", "unlink_fail"} :
             /\ n \in fs \/ oc = "stat_fail"
             /\ oc # "ok" => budget > 0
             /\ budget' = IF oc = "ok" THEN budget ELSE budget - 1
             /\ total_freed' = FreedAfter(total_freed, size[n], oc)
             /\ CASE oc = "ok" ->
                       /\ fs' = fs \ {n}
                       /\ notices' = Append(notices, Notice("Removing file", n))
                       /\ ops' = ops \o <<Op("stat", n, TRUE, "walk"),
                                          Op("unlink", n, TRUE, "walk")>>
                       /\ faults' = faults
                  [] oc = "stat_fail" ->
                       /\ fs' = fs
                       /\ notices' = Append(notices, Notice("SKIPPED", n))
                       /\ ops' = Append(ops, Op("stat", n, FALSE, "walk"))
                       /\ faults' = faults \cup {<<"stat", n>>}
                  [] OTHER ->
                       /\ fs' = fs
                       /\ notices' = notices \o <<Notice("Removing file", n),
                                                  Notice("SKIPPED", n)>>
                       /\ ops' = ops \o <<Op("stat", n, TRUE, "walk"),
                                          Op("unlink", n, FALSE, "walk")>>
                       /\ faults' = faults \cup {<<"unlink", n>>}
    /\ plan' = Tail(plan)
    /\ UNCHANGED <<fs_start, size, pc, walkerVars, path, fs_before, barVars>>

\* Whether rmdir(n) can succeed: n has no entries and is not named by the
\* path ".", which rmdir refuses.
RmdirCanSucceed(fsx, n, p) ==
    Entries(fsx, n) = {} /\ ~(p = "." /\ n = Resolve(p))

\* One subdirectory of the walk: rmdir, which fails on a directory that
\* still has entries.
WalkDir ==
    /\ pc = "walk"
    /\ plan # <<>>
    /\ Head(plan).k = "dir"
    /\ LET n == Head(plan).n
       IN  \E fail \in BOOLEAN :
             /\ fail => RmdirCanSucceed(fs, n, path) /\ budget > 0
             /\ budget' = IF fail THEN budget - 1 ELSE budget
             /\ LET ok == ~fail /\ RmdirCanSucceed(fs, n, path)
                IN  /\ fs' = IF ok THEN fs \ {n} ELSE fs
                    /\ notices' = Append(notices,
                                    Notice(IF ok THEN "Removing folder"
                                                 ELSE "SKIPPED", n))
                    /\ ops' = Append(ops, Op("rmdir", n, ok, "walk"))
                    /\ faults' = IF fail THEN faults \cup {<<"rmdir", n>>}
                                         ELSE faults
    /\ plan' = Tail(plan)
    /\ UNCHANGED <<fs_start, size, pc, walkerVars, path, total_freed, fs_before, barVars>>

\* After the last attempt of the walk: a file argument returns; a directory
\* argument goes on to shutil.rmtree(path, ignore_errors=True).
WalkEnd ==
    /\ pc = "walk"
    /\ plan = <<>>
    /\ IF PathIsFile(fs_before, path)
       THEN plan' = <<>> /\ pc' = "ret"
       ELSE /\ plan' = RmtreePlan(fs, Resolve(path))
            /\ pc' = "rmtree"
    /\ UNCHANGED <<fs, fs_start, size, budget, walkerVars, path, total_freed, notices,
                   ops, faults, fs_before, barVars>>

\* rmtree unlinks one remaining file; nothing is printed or counted.
RmtreeFile ==
    /\ pc = "rmtree"
    /\ plan # <<>>
    /\ Head(plan).k = "file"
    /\ LET n == Head(plan).n
       IN  \E fail \in BOOLEAN :
             /\ fail => budget > 0
             /\ budget' = IF fail THEN budget - 1 ELSE budget
             /\ fs' = IF fail THEN fs ELSE fs \ {n}
             /\ ops' = Append(ops, Op("unlink", n, ~fail, "rmtree"))
             /\ faults' = IF fail THEN faults \cup {<<"unlink", n>>} ELSE faults
    /\ plan' = Tail(plan)
    /\ UNCHANGED <<fs_start, size, pc, walkerVars, path, total_freed, notices,
                   fs_before, barVars>>

\* rmtree removes one directory, the root last.
RmtreeDir ==
    /\ pc = "rmtree"
    /\ plan # <<>>
    /\ Head(plan).k = "dir"
    /\ LET n == Head(plan).n
       IN  \E fail \in BOOLEAN :
             /\ fail => RmdirCanSucceed(fs, n, path) /\ budget > 0
             /\ budget' = IF fail THEN budget - 1 ELSE budget
             /\ LET ok == ~fail /\ RmdirCanSucceed(fs, n, path)
                IN  /\ fs' = IF ok THEN fs \ {n} ELSE fs
                    /\ ops' = Append(ops, Op("rmdir", n, ok, "rmtree"))
                    /\ faults' = IF fail THEN faults \cup {<<"rmdir", n>>}
                                         ELSE faults
    /\ plan' = Tail(plan)
    /\ UNCHANGED <<fs_start, size, pc, walkerVars, path, total_freed, notices,
                   fs_before, barVars>>

\* rmtree has returned: the root line is printed whatever happened, and the
\* call returns total_freed.
RmtreeEnd ==
    /\ pc = "rmtree"
    /\ plan = <<>>
    /\ notices' = Append(notices, Notice("Removing root folder", Resolve(path)))
    /\ pc' = "ret"
    /\ UNCHANGED <<fs, fs_start, size, budget, walkerVars, path, total_freed, plan, ops,
                   faults, fs_before, barVars>>

Erase == WalkFile \/ WalkDir \/ WalkEnd \/ RmtreeFile \/ RmtreeDir \/ RmtreeEnd

(***************************************************************************)
(* progress_bar                                                            *)
(*                                                                         *)
(* Python's / is the division of IEEE 754 doubles, and int() cuts a double *)
(* towards zero.  A positive double is [m, e]: Precision bits m, the first *)
(* of them 1, standing for 0.m * 2^e; every operation rounds to nearest,   *)
(* ties to even.                                                           *)
(***************************************************************************)
Precision == 53

RECURSIVE Normalise(_, _, _)
\* a/b as (A/B) * 2^e with 1/2 <= A/B < 1.
Normalise(A, B, e) ==
    IF A >= B THEN Normalise(A, 2 * B, e + 1)
    ELSE IF 2 * A < B THEN Normalise(2 * A, B, e - 1)
    ELSE [A |-> A, B |-> B, e |-> e]

RECURSIVE Pow2Mod(_, _)
\* 2^k modulo B, by repeated squaring.
Pow2Mod(k, B) ==
    IF k = 0 THEN 1 % B
    ELSE LET h == Pow2Mod(k \div 2, B)
         IN  (h * h * (IF k % 2 = 1 THEN 2 ELSE 1)) % B

\* What is left of r after k bits of the long division r/B.
Remainder(r, B, k) == (r * Pow2Mod(k, B)) % B

\* The first k bits of r/B (r < B) and the remainder left after them.
DivBits(r, B, k) ==
    [bits |-> [q \in 1..k |-> IF 2 * Remainder(r, B, q - 1) >= B THEN 1 ELSE 0],
     r |-> Remainder(r, B, k)]

\* bits + 1, with the carry out of the first bit.
Increment(bits) ==
    LET zeros == {k \in 1..Len(bits) : bits[k] = 0}
    IN  IF zeros = {}
        THEN [bits |-> [k \in 1..Len(bits) |-> 0], carry |-> 1]
        ELSE LET last == CHOOSE k \in zeros : \A q \in zeros : q <= k
             IN  [bits |-> [k \in 1..Len(bits) |->
                              IF k < last THEN bits[k]
                              ELSE IF k = last THEN 1 ELSE 0],
                  carry |-> 0]

\* Rounds 0.bits * 2^e to nearest, ties to even; up says the cut-off part
\* is above one half, tie that it is exactly one half.
RoundFloat(bits, e, up, tie) ==
    IF up \/ (tie /\ bits[Len(bits)] = 1)
    THEN LET inc == Increment(bits)
         IN  IF inc.carry = 1
             THEN [m |-> <<1>> \o SubSeq(inc.bits, 1, Len(bits) - 1), e |-> e + 1]
             ELSE [m |-> inc.bits, e |-> e]
    ELSE [m |-> bits, e |-> e]

\* The double a / b of two positive integers.
FloatDiv(a, b) ==
    LET n == Normalise(a, b, 0)
        q == DivBits(n.A, n.B, Precision)
    IN  RoundFloat(q.bits, n.e, 2 * q.r > n.B, 2 * q.r = n.B)

RECURSIVE BitsValue(_, _, _)
\* The integer bits[a..b] spells.
BitsValue(bits, a, b) ==
    IF a > b THEN 0 ELSE 2 * BitsValue(bits, a, b - 1) + bits[b]

\* The w bits of v < 2^w.
ToBits(v, w) == [q \in 1..w |-> (v \div 2^(w - q)) % 2]

RECURSIVE CarryBits(_)
CarryBits(c) == IF c = 0 THEN <<>> ELSE Append(CarryBits(c \div 2), c % 2)

RECURSIVE MulBits(_, _, _, _)
\* bits[1..k] * n + c, exactly, ten bits at a time.
MulBits(bits, k, n, c) ==
    IF k = 0 THEN CarryBits(c)
    ELSE LET w == IF k < 10 THEN k ELSE 10
             v == BitsValue(bits, k - w + 1, k) * n + c
         IN  MulBits(bits, k - w, n, v \div 2^w) \o ToBits(v % 2^w, w)

\* The double x * n of a positive double and a positive integer.
FloatMul(x, n) ==
    LET p == MulBits(x.m, Len(x.m), n, 0)
        extra == Len(p) - Precision
        cut == SubSeq(p, Precision + 1, Len(p))
        low == \E k \in 2..Len(cut) : cut[k] = 1
    IN  IF extra = 0 THEN [m |-> p, e |-> x.e]
        ELSE RoundFloat(SubSeq(p, 1, Precision), x.e + extra,
                        cut[1] = 1 /\ low, cut[1] = 1 /\ ~low)

\* int(x) of a positive double below 2^Precision.
FloatTrunc(x) == IF x.e <= 0 THEN 0 ELSE BitsValue(x.m, 1, x.e)

\* progress_bar(current, total): the cells of the bar and the number before
\* the percent sign.
progress_bar(cur, tot) ==
    LET width == 30
        filled == FloatTrunc(FloatDiv(width * cur, tot))
    IN  [cells |-> [k \in 1..filled |-> "#"] \o [k \in 1..(width - filled) |-> "-"],
         percent |-> FloatTrunc(FloatMul(FloatDiv(cur, tot), 100))]

(***************************************************************************)
(* delete_path_verbose called on its own                                   *)
(***************************************************************************)
\* The arguments tried: every node of the universe, "." and a path that
\* does not exist.
ErasePaths == (Nodes \ {"cwd"}) \cup {".", "cwd/missing"}

IdleWalker ==
    /\ catalogue = <<>>
    /\ i = 0
    /\ j = 0
    /\ total_cleaned = 0
    /\ size_before = 0
    /\ log = <<>>

IdleErase ==
    /\ total_freed = 0
    /\ plan = <<>>
    /\ notices = <<>>
    /\ ops = <<>>
    /\ faults = {}
    /\ fs_before = {}

IdleBar ==
    /\ current = 0
    /\ total = 0
    /\ bar = <<>>

InitErase ==
    /\ fs \in FsStates
    /\ fs_start = fs
    /\ size \in SizeMaps(fs)
    /\ pc = "call"
    /\ budget = 2 * Cardinality(Nodes)
    /\ path \in ErasePaths
    /\ IdleWalker
    /\ IdleErase
    /\ IdleBar

Call ==
    /\ pc = "call"
    /\ BeginErase(path)
    /\ UNCHANGED <<fs, fs_start, size, budget, walkerVars, barVars>>

NextErase == Call \/ Erase

SpecErase == InitErase /\ [][NextErase]_vars

(***************************************************************************)
(* progress_bar called on its own                                          *)
(***************************************************************************)
InitBar ==
    /\ fs = {"cwd"}
    /\ fs_start = fs
    /\ size = [f \in FileNodes |-> 0]
    /\ pc = "bar"
    /\ budget = 0
    /\ path = ""
    /\ IdleWalker
    /\ IdleErase
    /\ total \in 1..MaxTotal
    /\ current \in 1..total
    /\ bar = <<>>

Render ==
    /\ pc = "bar"
    /\ bar' = progress_bar(current, total)
    /\ pc' = "rendered"
    /\ UNCHANGED <<fs, fs_start, size, budget, walkerVars, eraseVars, current, total>>

NextBar == Render

SpecBar == InitBar /\ [][NextBar]_vars

(***************************************************************************)
(* clean_all_verbose                                                       *)
(***************************************************************************)
Line(t, p, v) == [t |-> t, p |-> p, v |-> v]

Init ==
    /\ fs \in FsStates
    /\ fs_start = fs
    /\ size \in SizeMaps(fs)
    /\ catalogue \in Catalogues
    /\ pc = "category"
    /\ budget = MaxFaults
    /\ i = 1
    /\ j = 0
    /\ total_cleaned = 0
    /\ size_before = 0
    /\ log = <<>>
    /\ path = ""
    /\ IdleErase
    /\ IdleBar

\* The candidate the inner loop is at.
Candidate == catalogue[i].paths[j]

\* if p and p.exists()
CandidateGuard(fsx, p) == PathTruthy(p) /\ PathExists(fsx, p)

\* A guard that lets a measured size of zero through.
WorthErasing_NonNegative(sb) == sb >= 0

\* if size_before > 0
WorthErasing(sb) == sb > 0

\* A running total fed with the size measured before the deletion.
Contribution_Measured(freed, measured) == measured

\* total_cleaned += freed
Contribution(freed, measured) == freed

\* The inner loop moves to the next path, or the category is finished.
NextCandidate ==
    IF j < Len(catalogue[i].paths)
    THEN j' = j + 1 /\ pc' = "path"
    ELSE j' = j /\ pc' = "progress"

\* The header line of category i.
Category ==
    /\ pc = "category"
    /\ log' = Append(log, Line("category", catalogue[i].label, i))
    /\ j' = 1
    /\ pc' = IF Len(catalogue[i].paths) = 0 THEN "progress" ELSE "path"
    /\ UNCHANGED <<fs, fs_start, size, budget, catalogue, i, total_cleaned, size_before,
                   eraseVars, barVars>>

\* p.exists() raises (a stat error other than ENOENT, ENOTDIR, EBADF,
\* ELOOP): nothing catches it.
ExistsRaises ==
    /\ pc = "path"
    /\ PathTruthy(Candidate)
    /\ pc' = "aborted"
    /\ UNCHANGED <<fs, fs_start, size, budget, walkerVars, eraseVars, barVars>>

\* The guard fails: the candidate is passed over.
SkipPath ==
    /\ pc = "path"
    /\ ~CandidateGuard(fs, Candidate)
    /\ NextCandidate
    /\ UNCHANGED <<fs, fs_start, size, budget, catalogue, i, total_cleaned, size_before,
                   log, eraseVars, barVars>>

\* The guard holds: get_size, and delete_path_verbose if it is worth it.
MeasurePath ==
    /\ pc = "path"
    /\ CandidateGuard(fs, Candidate)
    /\ \E o \in StatOracles(fs) :
         LET r == get_size(fs, size, Candidate, o)
             failed == Cardinality({f \in FileNodes : o[f] # "ok"})
         IN  /\ failed <= budget
             /\ budget' = budget - failed
             /\ IF r.raised
                THEN /\ pc' = "aborted"
                     /\ UNCHANGED <<j, size_before, eraseVars>>
                ELSE /\ size_before' = r.val
                     /\ IF WorthErasing(r.val)
                        THEN BeginErase(Candidate) /\ j' = j
                        ELSE NextCandidate /\ UNCHANGED eraseVars
    /\ UNCHANGED <<fs, fs_start, size, catalogue, i, total_cleaned, log, barVars>>

\* delete_path_verbose has returned: add, print [DONE] with the size
\* measured before.
Accumulate ==
    /\ pc = "ret"
    /\ total_cleaned' = total_cleaned + Contribution(total_freed, size_before)
    /\ log' = Append(log, Line("DONE", Candidate, size_before))
    /\ NextCandidate
    /\ path' = ""
    /\ total_freed' = 0
    /\ plan' = <<>>
    /\ notices' = <<>>
    /\ ops' = <<>>
    /\ faults' = {}
    /\ fs_before' = {}
    /\ UNCHANGED <<fs, fs_start, size, budget, catalogue, i, size_before, barVars>>

\* print("   " + progress_bar(i, total_tasks)); the log keeps the call.
Progress ==
    /\ pc = "progress"
    /\ log' = Append(log, Line("progress", i, Len(catalogue)))
    /\ IF i < Len(catalogue)
       THEN i' = i + 1 /\ pc' = "category"
       ELSE i' = i /\ pc' = "final"
    /\ UNCHANGED <<fs, fs_start, size, budget, catalogue, j, total_cleaned, size_before,
                   eraseVars, barVars>>

\* The closing lines, with sizeof_fmt(total_cleaned).
Final ==
    /\ pc = "final"
    /\ log' = Append(log, Line("total", "", total_cleaned))
    /\ pc' = "done"
    /\ UNCHANGED <<fs, fs_start, size, budget, catalogue, i, j, total_cleaned,
                   size_before, eraseVars, barVars>>

Next ==
    \/ Category
    \/ ExistsRaises
    \/ SkipPath
    \/ MeasurePath
    \/ Erase
    \/ Accumulate
    \/ Progress
    \/ Final

Spec == Init /\ [][Next]_vars

(***************************************************************************)
(* Properties of delete_path_verbose (checked under SpecErase, where       *)
(* pc = "ret" is the state in which the call has returned)                 *)
(***************************************************************************)
\* The node the current call was given.
Root == Resolve(path)

\* The call was given a directory and has returned.
DirCallReturned == pc = "ret" /\ PathIsDir(fs_before, path)

\* The nodes named by the [SKIPPED] notices, in order.
SkippedNodes ==
    LET isSkip(x) == x.t = "SKIPPED"
        sk == SelectSeq(notices, isSkip)
    IN  [k \in 1..Len(sk) |-> sk[k].n]

\* No operation of the call failed.
NoFailure == \A k \in DOMAIN ops : ops[k].ok

\* f is the one undeletable file of the call: every unlink of f failed,
\* and nothing else failed on its own.
OnlyLocked(f) ==
    /\ DirCallReturned
    /\ f \in FileNodes \cap Tree(fs_before, Root)
    /\ faults = {<<"unlink", f>>}
    /\ f \in fs

\* The directories strictly between the root of the call and f.
DirsBetween(f) == {d \in DirNodes : d # Root /\ IsUnder(d, Root) /\ IsUnder(f, d)}

\* C2 as claimed: with exactly one undeletable file, anywhere below the
\* root, the call returns the sum of the other files' sizes, prints exactly
\* one [SKIPPED] notice, which names that file, and leaves the root
\* present and non-empty.
C2_ExactlyOneSkipNotice ==
    \A f \in FileNodes :
      OnlyLocked(f) =>
        /\ total_freed = TreeSize(fs_before, size, Root) - size[f]
        /\ SkippedNodes = <<f>>
        /\ Root \in fs
        /\ Entries(fs, Root) # {}

\* C2 as amended: with exactly one undeletable file, the call returns the
\* sum of the other files' sizes and leaves the root present and non-empty;
\* it prints one [SKIPPED] notice for the file and one more for every
\* directory strictly between the root and the file (so exactly one notice
\* when the file lies directly in the root).
C2_SkipNoticesAlongThePath ==
    \A f \in FileNodes :
      OnlyLocked(f) =>
        /\ total_freed = TreeSize(fs_before, size, Root) - size[f]
        /\ SkippedNodes[1] = f
        /\ {SkippedNodes[k] : k \in DOMAIN SkippedNodes} = {f} \cup DirsBetween(f)
        /\ Len(SkippedNodes) = 1 + Cardinality(DirsBetween(f))
        /\ Root \in fs
        /\ Entries(fs, Root) # {}
        /\ Tree(fs, Root) = {f, Root} \cup DirsBetween(f)

\* C2's case: the locked file lies in a subdirectory, beside a file of
\* non-zero size that is removed.
C2_Witness ==
    /\ OnlyLocked("cwd/build/sub/b")
    /\ path = "cwd/build"
    /\ "cwd/build/a" \in fs_before
    /\ size["cwd/build/a"] > 0
    /\ total_freed = size["cwd/build/a"]

\* C3: when no deletion fails, the call on a directory returns the sum of
\* the sizes of all files of the tree, and nothing of the tree is left.
C3_EverythingErased ==
    (DirCallReturned /\ NoFailure) =>
        /\ total_freed = TreeSize(fs_before, size, Root)
        /\ Tree(fs, Root) = {}

\* C3's case: a tree with a file in the root, a file in a subdirectory and
\* an empty subdirectory, erased without a failure.
C3_Witness ==
    /\ DirCallReturned
    /\ NoFailure
    /\ path = "cwd/build"
    /\ {"cwd/build/a", "cwd/build/sub/b", "cwd/build/e"} \subseteq fs_before
    /\ size["cwd/build/a"] > 0
    /\ size["cwd/build/sub/b"] > 0

\* C4 as claimed: the value returned is the total size of the files that
\* existed under the path before the call and do not exist after it.
C4_ReturnsBytesFreed ==
    pc = "ret" =>
        total_freed = SumSize((fs_before \ fs) \cap FileNodes, size)

\* C8: every rmdir of a directory comes after an attempt on everything
\* the tree held below that directory, and the call on a directory ends
\* with the rmdir of the root.
C8_BottomUp ==
    /\ \A k \in DOMAIN ops :
         ops[k].op = "rmdir" =>
           \A c \in Tree(fs_before, ops[k].n) \ {ops[k].n} :
             \E q \in 1..(k - 1) : ops[q].n = c
    /\ DirCallReturned =>
         /\ ops # <<>>
         /\ ops[Len(ops)].op = "rmdir"
         /\ ops[Len(ops)].n = Root

\* C8's case: a subdirectory holding a file is removed by the walk, and the
\* call has returned.
C8_Witness ==
    /\ DirCallReturned
    /\ path = "cwd/build"
    /\ "cwd/build/sub/b" \in fs_before
    /\ \E k \in DOMAIN ops :
         ops[k] = Op("rmdir", "cwd/build/sub", TRUE, "walk")

(***************************************************************************)
(* Properties of clean_all_verbose (checked under Spec)                    *)
(***************************************************************************)
\* No operation has failed since the program started.
NoFaultYet == budget = MaxFaults

\* The [DONE] lines printed so far.
DoneLines ==
    LET isDone(x) == x.t = "DONE"
    IN  SelectSeq(log, isDone)

\* C1 as claimed: whatever filesystem operation fails, the walker never
\* aborts.
C1_NeverAborts == pc # "aborted"

\* C5 as claimed: the running total never decreases, and what a processed
\* path adds to it is the size measured before its deletion.
C5_AddsMeasuredSize ==
    [][/\ total_cleaned' >= total_cleaned
       /\ pc = "ret" => total_cleaned' = total_cleaned + size_before]_vars

\* C5 as amended: the running total never decreases and changes only when
\* delete_path_verbose returns; each return adds, once, the value returned
\* (the sizes of the files the walk unlinked), while the size measured
\* before goes into the [DONE] line only; no file is counted twice, also
\* when its path is processed again in a later category.
C5_AddsReturnedBytes ==
    /\ [][/\ total_cleaned' >= total_cleaned
          /\ pc = "ret" =>
               /\ total_cleaned' = total_cleaned + total_freed
               /\ log' = Append(log, Line("DONE", Candidate, size_before))
          /\ pc # "ret" => total_cleaned' = total_cleaned]_vars
    /\ [](total_cleaned + total_freed
            <= SumSize((fs_start \ fs) \cap FileNodes, size))

\* C5's case: the same path has been processed in two categories, the
\* first time with a file left behind, and the total is what was unlinked.
C5_Witness ==
    /\ pc = "done"
    /\ Len(DoneLines) >= 2
    /\ DoneLines[1].p = DoneLines[2].p
    /\ DoneLines[1].v > DoneLines[2].v
    /\ DoneLines[2].v > 0
    /\ total_cleaned = DoneLines[1].v

\* The walk over TestCatalogue has ended and nothing failed.
TestWalkDone == pc = "done" /\ catalogue = TestCatalogue /\ NoFaultYet

\* C6 as claimed: the walk over a category of one existing non-empty
\* directory of total size S and one non-existent path ends with a total of
\* S, reported in the final line, and with the directory absent.
C6_FreesDirectory ==
    (TestWalkDone /\ Entries(fs_start, "cwd/build") # {}) =>
        /\ total_cleaned = TreeSize(fs_start, size, "cwd/build")
        /\ log[Len(log)] = Line("total", "", TreeSize(fs_start, size, "cwd/build"))
        /\ "cwd/build" \notin fs

\* C6 as amended: the same, for a directory whose total size S is greater
\* than zero; nothing outside the directory changes.
C6_FreesNonZeroDirectory ==
    (TestWalkDone /\ TreeSize(fs_start, size, "cwd/build") > 0) =>
        /\ total_cleaned = TreeSize(fs_start, size, "cwd/build")
        /\ log[Len(log)] = Line("total", "", TreeSize(fs_start, size, "cwd/build"))
        /\ fs = fs_start \ Tree(fs_start, "cwd/build")
        /\ Len(DoneLines) = 1
        /\ DoneLines[1].p = "cwd/build"

\* C6's case: the directory held a file in a subdirectory.
C6_Witness ==
    /\ TestWalkDone
    /\ "cwd/build/sub/b" \in fs_start
    /\ size["cwd/build/sub/b"] > 0
    /\ total_cleaned > 0

\* C9: a candidate that does not exist, or whose measured size is zero, is
\* not erased: the step leaves the filesystem, the running total and the
\* log as they are and starts no call of delete_path_verbose.
C9_SkippedCandidateUntouched ==
    [][(/\ pc = "path"
        /\ pc' # "aborted"
        /\ ~PathExists(fs, Candidate) \/ size_before' = 0)
          => /\ fs' = fs
             /\ total_cleaned' = total_cleaned
             /\ log' = log
             /\ pc' \in {"path", "progress"}
             /\ ops' = <<>>]_vars

\* C9's case: the walk has passed a directory that exists, holds entries
\* and measures zero, and a path that does not exist.
C9_Witness ==
    /\ pc = "done"
    /\ catalogue = TestCatalogue
    /\ Entries(fs, "cwd/build") # {}
    /\ fs = fs_start
    /\ DoneLines = <<>>

\* C10 as claimed: every call of delete_path_verbose is on a named
\* location, never on the current working directory, and every operation
\* is on a node at or below a named location.
C10_OnlyNamedLocations ==
    /\ pc \in {"walk", "rmtree", "ret"} => path \in NamedLocations
    /\ \A k \in DOMAIN ops :
         \E loc \in NamedLocations : IsUnder(ops[k].n, loc)

(***************************************************************************)
(* Properties of progress_bar (checked under SpecBar)                      *)
(***************************************************************************)
\* C7 as claimed: 30 cells, floor(30*current/total) of them '#' and first,
\* the rest '-', and the percentage floor(100*current/total).
C7_BarAndPercent ==
    pc = "rendered" =>
        /\ Len(bar.cells) = 30
        /\ \A k \in 1..30 :
             bar.cells[k] = IF k <= (30 * current) \div total THEN "#" ELSE "-"
        /\ bar.percent = (100 * current) \div total

====
